---- MODULE Spec2Model ----
(***************************************************************************)
(* Model of the FinSage budgeting and anomaly-detection engine             *)
(* (backend/ai_service.py): the external-model path with its reply         *)
(* handling, and the deterministic rule-based fallbacks; and of the two    *)
(* endpoints of backend/main.py that run the engine and store its result.  *)
(*                                                                         *)
(* Money.  The code computes on Python floats.  Here an amount is an       *)
(* integer number of thousandths of a currency unit, so that inputs with   *)
(* more than two decimals exist, and every product and quotient is         *)
(* computed exactly.  round(x, 2) rounds to the nearest multiple of Cent.  *)
(* A binary float resolves a decimal half-cent tie by its representation   *)
(* error, which exact arithmetic cannot reproduce, so the requests of the  *)
(* model are those whose roundings are not exact ties (TieFree...): on     *)
(* these the decimal result and the code's float result agree.             *)
(***************************************************************************)
EXTENDS Integers, Sequences, FiniteSets, TLC

VARIABLES
    pc,             \* "idle" | "awaiting" (external call in flight) | "done"
    op,             \* the function invoked: "none" | "generate_budget_plan" | "detect_anomalies"
    args,           \* its arguments
    reply,          \* what the external-model call produced
    result,         \* the value returned to the caller
    raised,         \* TRUE when an exception escaped to the caller
    api_calls,      \* client.chat.completions.create calls issued by this invocation
    fallback_runs,  \* runs of the rule-based function made by this invocation
    budget_plans,   \* the user's rows of the current month in table budget_plans
    anomalies_rows, \* the user's rows in table anomalies
    http            \* the user's requests to the endpoints: where each handler is

vars == <<pc, op, args, reply, result, raised, api_calls, fallback_runs>>

\* What the endpoints keep: the two tables, and the requests in progress.
store == <<budget_plans, anomalies_rows, http>>

---------------------------------------------------------------------------
(* Arithmetic *)

\* Thousandths per cent: round(x, 2) keeps multiples of Cent.
Cent == 10

\* One currency unit.
Unit == 100 * Cent

Abs(x) == IF x < 0 THEN -x ELSE x

\* <<(a*b) \div c, (a*b) % c>> for a, b >= 0 and c > 0, taking a five bits
\* at a time so that no intermediate value reaches 2^31 (the float products
\* of the code do not overflow at these magnitudes; a 32-bit a*b would).
RECURSIVE MulDivMod(_, _, _)
MulDivMod(a, b, c) ==
    IF a = 0 THEN <<0, 0>>
    ELSE LET h   == MulDivMod(a \div 32, b, c)
             add == (a % 32) * b
             r   == 32 * h[2] + (add % c)
         IN  <<32 * h[1] + (add \div c) + (r \div c), r % c>>

\* a*b/c in cents: <<whole cents, remainder>>, the remainder out of c * Cent.
CentsOf(a, b, c) ==
    LET qr == MulDivMod(a, b, c)
    IN  <<qr[1] \div Cent, (qr[1] % Cent) * c + qr[2]>>

\* TRUE when a*b/c lies exactly half way between two multiples of Cent.
IsTie(a, b, c) == 2 * CentsOf(Abs(a), b, c)[2] = c * Cent

\* round(a*b/c, 2) for b >= 0, c > 0: the nearest multiple of Cent, an exact
\* tie going to the even one (Python's round).
Round2(a, b, c) ==
    LET qr   == CentsOf(Abs(a), b, c)
        twoR == 2 * qr[2]
        up   == twoR > c * Cent \/ (twoR = c * Cent /\ qr[1] % 2 = 1)
        mag  == (IF up THEN qr[1] + 1 ELSE qr[1]) * Cent
    IN  IF a < 0 THEN -mag ELSE mag

\* a/b < c/d and a/b > c/d for a, c >= 0 and b, d > 0.
FracLess(a, b, c, d) == MulDivMod(a, d, b)[1] < c
FracGreater(a, b, c, d) ==
    LET qr == MulDivMod(a, d, b) IN qr[1] > c \/ (qr[1] = c /\ qr[2] > 0)

---------------------------------------------------------------------------
(* Python values *)

\* A dict is a sequence of <<key, value>> pairs with distinct keys, in
\* insertion order.
Keys(d) == {d[i][1] : i \in DOMAIN d}
Has(d, k) == k \in Keys(d)
Get(d, k) == d[CHOOSE i \in DOMAIN d : d[i][1] = k][2]
IsDict(d) == \A i, j \in DOMAIN d : d[i][1] = d[j][1] => i = j

\* An Optional[Dict] argument: None, or a dict.
None == [isNone |-> TRUE, items |-> <<>>]
Some(d) == [isNone |-> FALSE, items |-> d]
\* Python truthiness of an Optional[Dict]: None and {} are falsy.
Truthy(p) == ~p.isNone /\ Len(p.items) > 0

RECURSIVE SumAmounts(_)
SumAmounts(cs) ==
    IF cs = <<>> THEN 0 ELSE Head(cs).allocated_amount + SumAmounts(Tail(cs))

---------------------------------------------------------------------------
(* _rule_based_budget *)

\* The keys of priority_allocation, in insertion order.
Categories_shopping_first ==
    <<"Shopping", "Rent", "Food", "Bills", "Transport", "Healthcare",
      "Education", "Entertainment", "Other">>

Categories ==
    <<"Rent", "Food", "Bills", "Transport", "Healthcare", "Education",
      "Shopping", "Entertainment", "Other">>

\* priority_allocation: min and max share of spendable, in thousandths.
priority_allocation ==
    [c \in {Categories[i] : i \in DOMAIN Categories} |->
        CASE c = "Rent"          -> [min |-> 250, max |-> 350]
          [] c = "Food"          -> [min |-> 150, max |-> 250]
          [] c = "Bills"         -> [min |-> 100, max |-> 150]
          [] c = "Transport"     -> [min |-> 80,  max |-> 120]
          [] c = "Healthcare"    -> [min |-> 50,  max |-> 100]
          [] c = "Education"     -> [min |-> 50,  max |-> 150]
          [] c = "Shopping"      -> [min |-> 50,  max |-> 100]
          [] c = "Entertainment" -> [min |-> 30,  max |-> 80]
          [] c = "Other"         -> [min |-> 20,  max |-> 50]]

spendable(income, target_savings, loan_commitments) ==
    income - target_savings - loan_commitments

\* allocated_percent of one category, as a fraction [num, den].
allocated_percent(category, past_expenses, spendable_amount) ==
    LET config == priority_allocation[category] IN
    IF Truthy(past_expenses) /\ Has(past_expenses.items, category)
    THEN LET past == Get(past_expenses.items, category) IN
         IF FracLess(past, spendable_amount, config.min, 1000)
         THEN [num |-> config.min, den |-> 1000]
         ELSE IF FracGreater(past, spendable_amount, config.max, 1000)
         THEN [num |-> config.max, den |-> 1000]
         ELSE [num |-> past, den |-> spendable_amount]
    ELSE [num |-> config.min + config.max, den |-> 2000]

\* The list built by the loop over priority_allocation.items().
budget_categories(spendable_amount, past_expenses) ==
    [i \in DOMAIN Categories |->
        LET pct == allocated_percent(Categories[i], past_expenses, spendable_amount)
        IN  [category |-> Categories[i],
             allocated_amount |-> Round2(spendable_amount, pct.num, pct.den)]]

\* total = sum(...); if total > spendable_amount: scale every amount by
\* spendable_amount / total and round it to 2 decimals.
ScaleDown_never(cs, spendable_amount) == cs

ScaleDown_both_ways(cs, spendable_amount) ==
    LET total == SumAmounts(cs) IN
    IF total # spendable_amount /\ total > 0
    THEN [i \in DOMAIN cs |->
            [cs[i] EXCEPT !.allocated_amount =
                Round2(cs[i].allocated_amount, spendable_amount, total)]]
    ELSE cs

ScaleDown(cs, spendable_amount) ==
    LET total == SumAmounts(cs) IN
    IF total > spendable_amount
    THEN [i \in DOMAIN cs |->
            [cs[i] EXCEPT !.allocated_amount =
                Round2(cs[i].allocated_amount, spendable_amount, total)]]
    ELSE cs

\* What a Python call produces: a returned value, or an exception.
Return(v) == [raised |-> FALSE, value |-> v]
Raise == [raised |-> TRUE, value |-> <<>>]

\* The divisions of _rule_based_budget that meet a zero divisor:
\* past_expenses[category] / spendable_amount, and spendable_amount / total.
budget_zero_division(spendable_amount, past_expenses) ==
    \/ /\ spendable_amount = 0
       /\ Truthy(past_expenses)
       /\ \E i \in DOMAIN Categories : Has(past_expenses.items, Categories[i])
    \/ LET total == SumAmounts(budget_categories(spendable_amount, past_expenses))
       IN  total > spendable_amount /\ total = 0

_rule_based_budget_negative_only(income, target_savings, loan_commitments, past_expenses) ==
    LET spendable_amount == spendable(income, target_savings, loan_commitments) IN
    IF spendable_amount < 0
    THEN Return(<<>>)
    ELSE IF budget_zero_division(spendable_amount, past_expenses)
    THEN Raise
    ELSE Return(ScaleDown(budget_categories(spendable_amount, past_expenses),
                          spendable_amount))

_rule_based_budget(income, target_savings, loan_commitments, past_expenses) ==
    LET spendable_amount == spendable(income, target_savings, loan_commitments) IN
    IF spendable_amount <= 0
    THEN Return(<<>>)
    ELSE IF budget_zero_division(spendable_amount, past_expenses)
    THEN Raise
    ELSE Return(ScaleDown(budget_categories(spendable_amount, past_expenses),
                          spendable_amount))

---------------------------------------------------------------------------
(* The external-model reply *)

\* A parsed JSON value: an array carries its elements, the other types none.
JArray(items) == [type |-> "array", items |-> items]
JOther(type) == [type |-> type, items |-> <<>>]

\* chat_completion...content as the code reads it: what precedes the body
\* (FenceJson, Fence, other prose, or nothing), the body, and what follows it.
\* FenceJson is the opening markdown fence tagged json, Fence the bare one.
FenceJson == "<fence>json"
Fence == "<fence>"
Text(prefix, body, suffix) ==
    [kind |-> "text", prefix |-> prefix, body |-> body, suffix |-> suffix]

\* The call itself failed: client.chat.completions.create raised.
CallFailed(why) == [kind |-> why, prefix |-> "", body |-> JOther("invalid"), suffix |-> ""]

\* The three startswith/endswith tests that drop markdown fences.
StripFences(text) ==
    LET a == IF text.prefix = FenceJson THEN [text EXCEPT !.prefix = ""] ELSE text
        b == IF a.prefix = Fence THEN [a EXCEPT !.prefix = ""] ELSE a
    IN  IF b.suffix = Fence THEN [b EXCEPT !.suffix = ""] ELSE b

\* json.loads: raises on anything that is not one JSON document.
json_loads(text) ==
    IF text.prefix = "" /\ text.suffix = "" /\ text.body.type # "invalid"
    THEN Return(text.body)
    ELSE Raise

\* What the try block has after json.loads, or Raise for an exception in it.
parse_reply(r) ==
    IF r.kind # "text" THEN Raise ELSE json_loads(StripFences(r))

\* isinstance(x, list) and all("category" in c and "allocated_amount" in c ...)
valid_budget_structure_amount_only(v) ==
    /\ v.type = "array"
    /\ \A i \in DOMAIN v.items : "allocated_amount" \in DOMAIN v.items[i]

valid_budget_structure(v) ==
    /\ v.type = "array"
    /\ \A i \in DOMAIN v.items :
          {"category", "allocated_amount"} \subseteq DOMAIN v.items[i]

\* "Normalise total to exactly spendable_amount"
normalise_total_down_only(cs, spendable_amount) ==
    LET total == SumAmounts(cs) IN
    IF total > 0 /\ total - spendable_amount > 1 * Unit
    THEN [i \in DOMAIN cs |->
            [cs[i] EXCEPT !.allocated_amount =
                Round2(cs[i].allocated_amount, spendable_amount, total)]]
    ELSE cs

normalise_total(cs, spendable_amount) ==
    LET total == SumAmounts(cs) IN
    IF total > 0 /\ Abs(total - spendable_amount) > 1 * Unit
    THEN [i \in DOMAIN cs |->
            [cs[i] EXCEPT !.allocated_amount =
                Round2(cs[i].allocated_amount, spendable_amount, total)]]
    ELSE cs

\* The try block of generate_budget_plan: the list it returns, or Raise.
budget_from_reply_lenient(r, spendable_amount) ==
    LET parsed == parse_reply(r) IN
    IF parsed.raised
    THEN Return(<<>>)
    ELSE IF ~valid_budget_structure(parsed.value)
    THEN Raise
    ELSE Return(normalise_total(parsed.value.items, spendable_amount))

budget_from_reply(r, spendable_amount) ==
    LET parsed == parse_reply(r) IN
    IF parsed.raised \/ ~valid_budget_structure(parsed.value)
    THEN Raise
    ELSE Return(normalise_total(parsed.value.items, spendable_amount))

\* generate_budget_plan from its arguments and the reply of the external
\* call: the value returned, the exception that escapes, and the calls made.
generate_budget_plan_retrying(income, target_savings, past_expenses, loan_commitments, r) ==
    LET spendable_amount == spendable(income, target_savings, loan_commitments)
        tried == budget_from_reply(r, spendable_amount)
    IN  IF spendable_amount <= 0
        THEN [out |-> Return(<<>>), api_calls |-> 0, fallback_runs |-> 0]
        ELSE IF ~tried.raised
        THEN [out |-> tried, api_calls |-> 1, fallback_runs |-> 0]
        ELSE [out |-> _rule_based_budget(income, target_savings,
                                         loan_commitments, past_expenses),
              api_calls |-> 2, fallback_runs |-> 1]

generate_budget_plan(income, target_savings, past_expenses, loan_commitments, r) ==
    LET spendable_amount == spendable(income, target_savings, loan_commitments)
        tried == budget_from_reply(r, spendable_amount)
    IN  IF spendable_amount <= 0
        THEN [out |-> Return(<<>>), api_calls |-> 0, fallback_runs |-> 0]
        ELSE IF ~tried.raised
        THEN [out |-> tried, api_calls |-> 1, fallback_runs |-> 0]
        ELSE [out |-> _rule_based_budget(income, target_savings,
                                         loan_commitments, past_expenses),
              api_calls |-> 1, fallback_runs |-> 1]

---------------------------------------------------------------------------
(* rule_based_anomaly_detection *)

RECURSIVE GCD(_, _)
GCD(a, b) == IF b = 0 THEN a ELSE GCD(b, a % b)

\* The number n/d (d > 0) in lowest terms: an impact_amount.  Rule 3 divides
\* by the number of categories, so an impact need not be a whole thousandth.
Frac(n, d) ==
    LET g == GCD(Abs(n), d)
    IN  IF n = 0 THEN [num |-> 0, den |-> 1] ELSE [num |-> n \div g, den |-> d \div g]

RECURSIVE SumValues(_)
SumValues(d) == IF d = <<>> THEN 0 ELSE Head(d)[2] + SumValues(Tail(d))

\* One element of the anomalies list; issue and recommendation name the
\* f-string template that the code fills in.
Anomaly(category, issue, impact, recommendation) ==
    [category |-> category, issue |-> issue, impact_amount |-> impact,
     recommendation |-> recommendation]

CategoriesOf(anomalies) == {anomalies[i].category : i \in DOMAIN anomalies}

\* RULE 1: category overspending (current > allocated budget).
overspent_inclusive(kv, budget_allocations) ==
    Has(budget_allocations, kv[1]) /\ kv[2] >= Get(budget_allocations, kv[1])

overspent(kv, budget_allocations) ==
    Has(budget_allocations, kv[1]) /\ kv[2] > Get(budget_allocations, kv[1])

rule1(current_expenses, budget_allocations) ==
    LET hits == SelectSeq(current_expenses,
                          LAMBDA kv : overspent(kv, budget_allocations))
    IN  [i \in DOMAIN hits |->
            Anomaly(hits[i][1], "spending exceeded budget",
                    Frac(hits[i][2] - Get(budget_allocations, hits[i][1]), 1),
                    "reduce spending to stay within budget")]

\* increase_percent > 30, for last_amount > 0.
spiked_inclusive(current_amount, last_amount) ==
    last_amount > 0 /\ (current_amount - last_amount) * 100 >= 30 * last_amount

spiked(current_amount, last_amount) ==
    last_amount > 0 /\ (current_amount - last_amount) * 100 > 30 * last_amount

\* RULE 2: expense spike > 30% compared to last month.
rule2_reflagging(current_expenses, last_month_expenses, detected_categories) ==
    LET hits == SelectSeq(current_expenses,
                          LAMBDA kv : /\ Has(last_month_expenses, kv[1])
                                      /\ spiked(kv[2], Get(last_month_expenses, kv[1])))
    IN  [i \in DOMAIN hits |->
            Anomaly(hits[i][1], "spending increased compared to last month",
                    Frac(hits[i][2] - Get(last_month_expenses, hits[i][1]), 1),
                    "review expenses to match last month")]

rule2(current_expenses, last_month_expenses, detected_categories) ==
    LET hits == SelectSeq(current_expenses,
                          LAMBDA kv : /\ Has(last_month_expenses, kv[1])
                                      /\ kv[1] \notin detected_categories
                                      /\ spiked(kv[2], Get(last_month_expenses, kv[1])))
    IN  [i \in DOMAIN hits |->
            Anomaly(hits[i][1], "spending increased compared to last month",
                    Frac(hits[i][2] - Get(last_month_expenses, hits[i][1]), 1),
                    "review expenses to match last month")]

\* average_per_category > 0 and amount > average_per_category * 2, where
\* average_per_category = total_current / num_categories.
outlier_above_average(amount, total_current, num_categories) ==
    total_current > 0 /\ amount * num_categories > total_current

outlier(amount, total_current, num_categories) ==
    total_current > 0 /\ amount * num_categories > 2 * total_current

\* RULE 3: amount > 2x the average per category.
rule3_unflagged_average(current_expenses, detected_categories) ==
    LET rest == SelectSeq(current_expenses, LAMBDA kv : kv[1] \notin detected_categories)
        total_current  == SumValues(rest)
        num_categories == Len(rest)
        hits == SelectSeq(rest, LAMBDA kv : outlier(kv[2], total_current, num_categories))
    IN  [i \in DOMAIN hits |->
            Anomaly(hits[i][1], "unusually large expense",
                    Frac(hits[i][2] * num_categories - total_current, num_categories),
                    "verify if this expense was necessary")]

rule3(current_expenses, detected_categories) ==
    LET total_current  == SumValues(current_expenses)
        num_categories == Len(current_expenses)
        hits == SelectSeq(current_expenses,
                          LAMBDA kv : /\ kv[1] \notin detected_categories
                                      /\ outlier(kv[2], total_current, num_categories))
    IN  [i \in DOMAIN hits |->
            Anomaly(hits[i][1], "unusually large expense",
                    Frac(hits[i][2] * num_categories - total_current, num_categories),
                    "verify if this expense was necessary")]

\* total_current > monthly_limit * 0.9
approaching_inclusive(total_current, monthly_limit) ==
    total_current * 10 >= monthly_limit * 9 /\ total_current <= monthly_limit

approaching(total_current, monthly_limit) ==
    total_current * 10 > monthly_limit * 9 /\ total_current <= monthly_limit

\* RULE 4: total expenses exceed the monthly limit; RULE 5 (elif):
\* approaching the monthly limit.  Rule 5 divides by monthly_limit.
rule45_inclusive(current_expenses, monthly_limit) ==
    LET total_current == SumValues(current_expenses) IN
    IF total_current >= monthly_limit
    THEN Return(<<Anomaly("Overall Budget", "total expenses exceeded monthly limit",
                          Frac(total_current - monthly_limit, 1),
                          "reduce discretionary spending")>>)
    ELSE IF approaching(total_current, monthly_limit)
    THEN Return(<<Anomaly("Overall Budget", "used percent of monthly budget",
                          Frac(total_current, 1), "monitor spending")>>)
    ELSE Return(<<>>)

rule45_remaining(current_expenses, monthly_limit) ==
    LET total_current == SumValues(current_expenses) IN
    IF total_current > monthly_limit
    THEN Return(<<Anomaly("Overall Budget", "total expenses exceeded monthly limit",
                          Frac(total_current - monthly_limit, 1),
                          "reduce discretionary spending")>>)
    ELSE IF approaching(total_current, monthly_limit)
    THEN Return(<<Anomaly("Overall Budget", "used percent of monthly budget",
                          Frac(monthly_limit - total_current, 1), "monitor spending")>>)
    ELSE Return(<<>>)

rule45(current_expenses, monthly_limit) ==
    LET total_current == SumValues(current_expenses) IN
    IF total_current > monthly_limit
    THEN Return(<<Anomaly("Overall Budget", "total expenses exceeded monthly limit",
                          Frac(total_current - monthly_limit, 1),
                          "reduce discretionary spending")>>)
    ELSE IF approaching(total_current, monthly_limit)
    THEN IF monthly_limit = 0
         THEN Raise
         ELSE Return(<<Anomaly("Overall Budget", "used percent of monthly budget",
                               Frac(total_current, 1),
                               "monitor spending")>>)
    ELSE Return(<<>>)

rule_based_anomaly_detection_by_category(income, monthly_limit, target_savings, current_expenses, budget_allocations, last_month_expenses) ==
    LET a1 == rule1(current_expenses, budget_allocations)
        a2 == rule2(current_expenses, last_month_expenses, CategoriesOf(a1))
        a3 == rule3(current_expenses, CategoriesOf(a1) \cup CategoriesOf(a2))
        a45 == rule45(current_expenses, monthly_limit)
        per_category == a1 \o a2 \o a3
        of(kv) == SelectSeq(per_category, LAMBDA a : a.category = kv[1])
        RECURSIVE InMapOrder(_)
        InMapOrder(d) == IF d = <<>> THEN <<>> ELSE of(Head(d)) \o InMapOrder(Tail(d))
    IN  IF a45.raised THEN Raise ELSE Return(InMapOrder(current_expenses) \o a45.value)

rule_based_anomaly_detection(income, monthly_limit, target_savings, current_expenses, budget_allocations, last_month_expenses) ==
    LET a1 == rule1(current_expenses, budget_allocations)
        a2 == rule2(current_expenses, last_month_expenses, CategoriesOf(a1))
        a3 == rule3(current_expenses, CategoriesOf(a1) \cup CategoriesOf(a2))
        a45 == rule45(current_expenses, monthly_limit)
    IN  IF a45.raised THEN Raise ELSE Return(a1 \o a2 \o a3 \o a45.value)

\* len(anomalies) in the log line raises TypeError for a JSON number or null.
has_len(v) == v.type \in {"array", "object", "string"}

\* detect_anomalies from its arguments and the reply of the external call.
detect_anomalies(income, monthly_limit, target_savings, current_expenses, budget_allocations, last_month_expenses, r) ==
    LET parsed == parse_reply(r) IN
    IF ~parsed.raised /\ has_len(parsed.value)
    THEN [out |-> parsed, api_calls |-> 1, fallback_runs |-> 0]
    ELSE LET fb == rule_based_anomaly_detection(income, monthly_limit,
                       target_savings, current_expenses, budget_allocations,
                       last_month_expenses)
         IN  [out |-> IF fb.raised THEN Raise ELSE Return(JArray(fb.value)),
              api_calls |-> 1, fallback_runs |-> 1]

---------------------------------------------------------------------------
(* generate_ai_recommendations *)

\* dict.get(k, 0)
GetOr0(d, k) == IF Has(d, k) THEN Get(d, k) ELSE 0

\* allocated > 0 and spent > allocated
exceeded(kv, budget_allocations) ==
    LET allocated == GetOr0(budget_allocations, kv[1])
    IN  allocated > 0 /\ kv[2] > allocated

\* The overrun list: one entry per category spent above a positive allocation.
overruns(current_month_expenses, budget_allocations) ==
    LET hits == SelectSeq(current_month_expenses,
                          LAMBDA kv : exceeded(kv, budget_allocations))
    IN  [i \in DOMAIN hits |->
            LET allocated == GetOr0(budget_allocations, hits[i][1]) IN
            [category |-> hits[i][1],
             allocated |-> Round2(allocated, 1, 1),
             spent |-> Round2(hits[i][2], 1, 1),
             exceeded_by |-> Round2(hits[i][2] - allocated, 1, 1)]]

\* last > 0 and change_pct > 20
rose_above_thirty(spent, last) == last > 0 /\ (spent - last) * 100 > 30 * last

rose(spent, last) == last > 0 /\ (spent - last) * 100 > 20 * last

\* round(change_pct, 1), in hundredths of a percent: one decimal of a
\* percent is Cent of these.
increase_pct(spent, last) == Round2(spent - last, 100 * 100, last)

\* The month-over-month changes: one entry per category up by more than 20%.
mom_changes(current_month_expenses, last_month_expenses) ==
    LET hits == SelectSeq(current_month_expenses,
                          LAMBDA kv : rose(kv[2], GetOr0(last_month_expenses, kv[1])))
    IN  [i \in DOMAIN hits |->
            [category |-> hits[i][1],
             increase_pct |-> increase_pct(hits[i][2],
                                           GetOr0(last_month_expenses, hits[i][1]))]]

\* One recommendation.  The category of a fallback recommendation is an
\* f-string: the name it is about, if any, and the fixed words; the message
\* names the template and the number the code fills in.
Rec(about, words, template, number, type) ==
    [category |-> [about |-> about, words |-> words],
     message |-> [template |-> template, number |-> number],
     type |-> type]

\* The except block of generate_ai_recommendations: the rule-based tips.
fallback_recs_health_beside_savings(overrun_list, change_list, total_expenses) ==
    LET alerts == [i \in DOMAIN overrun_list |->
                      Rec(overrun_list[i].category, "Budget Alert",
                          "you exceeded your budget", overrun_list[i].exceeded_by,
                          "warning")]
        spikes == [i \in DOMAIN change_list |->
                      Rec(change_list[i].category, "Spike",
                          "spending increased vs last month",
                          change_list[i].increase_pct, "warning")]
        saving == IF total_expenses > 0
                  THEN <<Rec("", "Savings Opportunity", "reducing expenses by 10% saves",
                             total_expenses, "success")>>
                  ELSE <<>>
    IN  IF alerts \o spikes = <<>>
        THEN saving \o <<Rec("", "Financial Health", "your spending looks on track",
                             0, "success")>>
        ELSE alerts \o spikes \o saving

fallback_recs(overrun_list, change_list, total_expenses) ==
    LET alerts == [i \in DOMAIN overrun_list |->
                      Rec(overrun_list[i].category, "Budget Alert",
                          "you exceeded your budget", overrun_list[i].exceeded_by,
                          "warning")]
        spikes == [i \in DOMAIN change_list |->
                      Rec(change_list[i].category, "Spike",
                          "spending increased vs last month",
                          change_list[i].increase_pct, "warning")]
        saving == IF total_expenses > 0
                  THEN <<Rec("", "Savings Opportunity", "reducing expenses by 10% saves",
                             total_expenses, "success")>>
                  ELSE <<>>
        recs   == alerts \o spikes \o saving
    IN  IF recs = <<>>
        THEN <<Rec("", "Financial Health", "your spending looks on track", 0, "success")>>
        ELSE recs

\* isinstance(result, list) and all("category" in r and "message" in r ...)
valid_recs_structure(v) ==
    /\ v.type = "array"
    /\ \A i \in DOMAIN v.items : {"category", "message"} \subseteq DOMAIN v.items[i]

\* generate_ai_recommendations from its arguments and the reply of the
\* external call.
generate_ai_recommendations(income, current_month_expenses, last_month_expenses, budget_allocations, total_expenses, r) ==
    LET parsed == parse_reply(r) IN
    IF ~parsed.raised /\ valid_recs_structure(parsed.value)
    THEN [out |-> Return(parsed.value.items), api_calls |-> 1, fallback_runs |-> 0]
    ELSE [out |-> Return(fallback_recs(
                             overruns(current_month_expenses, budget_allocations),
                             mom_changes(current_month_expenses, last_month_expenses),
                             total_expenses)),
          api_calls |-> 1, fallback_runs |-> 1]

---------------------------------------------------------------------------
(* Requests *)

\* Largest small income of the model, in cents.
MaxIncomeCents == 50

\* Longest array the external model replies with.
MaxReplyLen == 2

Incomes == {c * Cent : c \in 0..MaxIncomeCents} \cup {59 * Unit, 100 * Unit, 50000 * Unit}
SavingsValues == {0, 10000 * Unit}
LoanValues == {0, 5}

AllZero == [i \in DOMAIN Categories |-> <<Categories[i], 0>>]

PastExpensesValues ==
    { None,
      Some(<<>>),
      Some(<< <<"Food", 1000 * Unit>> >>),
      Some(<< <<"Travel", 5 * Unit>> >>),
      Some(AllZero),
      Some(<< <<"Rent", 0>>, <<"Food", 1000 * Unit>>, <<"Bills", 40>>,
              <<"Travel", 70>> >>) }

\* No rounding of _rule_based_budget on these arguments is an exact tie.
TieFreeBudget(spendable_amount, past_expenses) ==
    IF spendable_amount <= 0 THEN TRUE
    ELSE LET cs    == budget_categories(spendable_amount, past_expenses)
             total == SumAmounts(cs)
         IN  /\ \A i \in DOMAIN Categories :
                  LET pct == allocated_percent(Categories[i], past_expenses,
                                               spendable_amount)
                  IN  ~IsTie(spendable_amount, pct.num, pct.den)
             /\ total > spendable_amount =>
                  \A i \in DOMAIN cs :
                      ~IsTie(cs[i].allocated_amount, spendable_amount, total)

\* No rounding of normalise_total on this reply is an exact tie.
TieFreeReply(r, spendable_amount) ==
    IF parse_reply(r).raised THEN TRUE
    ELSE IF ~valid_budget_structure(parse_reply(r).value) THEN TRUE
    ELSE LET cs    == parse_reply(r).value.items
             total == SumAmounts(cs)
         IN  (total > 0 /\ Abs(total - spendable_amount) > 1 * Unit) =>
                 \A i \in DOMAIN cs :
                     ~IsTie(cs[i].allocated_amount, spendable_amount, total)

ReplyAmounts == {0, 60 * Unit, 100 * Unit + 505}

BudgetReplyItems ==
    {[category |-> "Rent", allocated_amount |-> a] : a \in ReplyAmounts}
    \cup {[category |-> "Rent"], [allocated_amount |-> 60 * Unit]}

RECURSIVE SeqsUpTo(_, _)
SeqsUpTo(S, n) ==
    IF n = 0 THEN {<<>>}
    ELSE LET shorter == SeqsUpTo(S, n - 1)
         IN  shorter \cup {Append(s, x) : s \in {t \in shorter : Len(t) = n - 1}, x \in S}

SampleBudgetArray ==
    JArray(<< [category |-> "Rent", allocated_amount |-> 60 * Unit],
              [category |-> "Rent", allocated_amount |-> 60 * Unit] >>)

BudgetReplies ==
    { CallFailed("exception"), CallFailed("timeout"),
      Text("", JOther("invalid"), ""),
      Text("", JOther("number"), ""),
      Text("", JOther("object"), ""),
      Text("prose", SampleBudgetArray, ""),
      Text(FenceJson, SampleBudgetArray, Fence),
      Text(Fence, SampleBudgetArray, Fence) }
    \cup {Text("", JArray(items), "") : items \in SeqsUpTo(BudgetReplyItems, MaxReplyLen)}

\* The categories of the expense dicts handed to the detector, in the
\* order the caller inserts them.
ExpenseCategories == <<"Food", "Rent", "Other">>
ExpenseAmounts == {0, 1300 * Unit, 1301 * Unit, 6000 * Unit, 9500 * Unit}

\* Every current_expenses dict on a prefix of ExpenseCategories.
CurrentExpensesValues ==
    UNION {{[i \in 1..n |-> <<ExpenseCategories[i], f[i]>>] :
              f \in [1..n -> ExpenseAmounts]} : n \in 0..Len(ExpenseCategories)}

BudgetAllocationsValues ==
    { <<>>,
      << <<"Food", 5000 * Unit>> >>,
      << <<"Food", 6000 * Unit>>, <<"Rent", 1300 * Unit>> >>,
      << <<"Other", 1234 * Unit + 567>> >> }

LastMonthValues ==
    { <<>>,
      << <<"Food", 1000 * Unit>>, <<"Rent", 0>> >>,
      << <<"Food", 1000 * Unit>>, <<"Other", 1000 * Unit>> >> }

MonthlyLimits == {0, 10000 * Unit, 20000 * Unit}

SampleAnomaly ==
    Anomaly("Food", "food spending exceeded budget", Frac(150 * Unit, 1),
            "reduce dining out")

DetectReplies ==
    { CallFailed("exception"), CallFailed("timeout"),
      Text("", JOther("invalid"), ""),
      Text("", JOther("number"), ""),
      Text("", JOther("object"), ""),
      Text("", JArray(<<>>), ""),
      Text("", JArray(<<SampleAnomaly>>), ""),
      Text("", JArray(<<[category |-> "Food"]>>), ""),
      Text(FenceJson, JArray(<<SampleAnomaly>>), Fence),
      Text("prose", JArray(<<SampleAnomaly>>), "") }

\* Arguments of generate_ai_recommendations.
MaxRecommendCategories == 2

RecommendExpensesValues ==
    {d \in CurrentExpensesValues : Len(d) <= MaxRecommendCategories}

RecommendAllocationsValues == BudgetAllocationsValues \cup { << <<"Food", 0>> >> }

TotalExpensesValues == {0, 9500 * Unit}

SampleRec == Rec("Entertainment", "", "switch to free streaming", 0, "warning")

RecommendReplies ==
    { CallFailed("exception"), CallFailed("timeout"),
      Text("", JOther("invalid"), ""),
      Text("", JOther("object"), ""),
      Text("", JArray(<<>>), ""),
      Text("", JArray(<<SampleRec>>), ""),
      Text("", JArray(<<[category |-> SampleRec.category]>>), ""),
      Text(FenceJson, JArray(<<SampleRec>>), Fence) }

---------------------------------------------------------------------------
(* The engine, one invocation at a time *)

\* The result slot when an exception escaped instead of a value.
Raised == JOther("exception")

NoArgs == [income |-> 0]
NoReply == CallFailed("none")

\* Requests the one user sends; the server handles them side by side.
MaxRequests == 2
Requests == 1..MaxRequests

\* A request: the endpoint it runs, where its handler is ("idle": not yet
\* sent; "planned", "deleted": between the database calls of
\* generate_budget; "responded": the handler ended), what the
\* handler holds (budget_plan), the rows the table held when the request
\* came in, and the response (HTTP status, reported count).
NoRequest == [endpoint |-> "none", at |-> "idle", budget_plan |-> <<>>, before |-> <<>>, reads_ok |-> FALSE, status |-> 0, count |-> 0]

Init ==
    /\ pc = "idle"
    /\ op = "none"
    /\ args = NoArgs
    /\ reply = NoReply
    /\ result = JArray(<<>>)
    /\ raised = FALSE
    /\ api_calls = 0
    /\ fallback_runs = 0
    /\ budget_plans = <<>>
    /\ anomalies_rows = <<>>
    /\ http = [r \in Requests |-> NoRequest]

\* generate_budget_plan is called: it returns [] at once when nothing is
\* spendable, and otherwise issues the external call.
BudgetCall ==
    /\ pc = "idle"
    /\ \E income \in Incomes, target_savings \in SavingsValues,
          loan_commitments \in LoanValues, past_expenses \in PastExpensesValues :
          LET early == generate_budget_plan(income, target_savings, past_expenses,
                                            loan_commitments, NoReply)
          IN  /\ TieFreeBudget(spendable(income, target_savings, loan_commitments),
                               past_expenses)
              /\ op' = "generate_budget_plan"
              /\ args' = [income |-> income, target_savings |-> target_savings,
                          past_expenses |-> past_expenses,
                          loan_commitments |-> loan_commitments]
              /\ IF early.api_calls = 0
                 THEN /\ pc' = "done"
                      /\ result' = IF early.out.raised THEN Raised
                                   ELSE JArray(early.out.value)
                      /\ raised' = early.out.raised
                      /\ api_calls' = 0
                      /\ fallback_runs' = early.fallback_runs
                 ELSE /\ pc' = "awaiting"
                      /\ api_calls' = 1
                      /\ UNCHANGED <<result, raised, fallback_runs>>
    /\ UNCHANGED reply
    /\ UNCHANGED store

\* The external call of generate_budget_plan ends, by a reply or by an
\* exception, and the function runs to its return.
BudgetReply ==
    /\ pc = "awaiting"
    /\ op = "generate_budget_plan"
    /\ \E r \in BudgetReplies :
          LET done == generate_budget_plan(args.income, args.target_savings,
                                           args.past_expenses, args.loan_commitments, r)
          IN  /\ TieFreeReply(r, spendable(args.income, args.target_savings,
                                           args.loan_commitments))
              /\ reply' = r
              /\ result' = IF done.out.raised THEN Raised ELSE JArray(done.out.value)
              /\ raised' = done.out.raised
              /\ api_calls' = done.api_calls
              /\ fallback_runs' = done.fallback_runs
    /\ pc' = "done"
    /\ UNCHANGED <<op, args>>
    /\ UNCHANGED store

\* detect_anomalies is called and issues the external call.
DetectCall ==
    /\ pc = "idle"
    /\ \E monthly_limit \in MonthlyLimits, current_expenses \in CurrentExpensesValues,
          budget_allocations \in BudgetAllocationsValues,
          last_month_expenses \in LastMonthValues :
          args' = [income |-> 50000 * Unit, monthly_limit |-> monthly_limit,
                   target_savings |-> 10000 * Unit,
                   current_expenses |-> current_expenses,
                   budget_allocations |-> budget_allocations,
                   last_month_expenses |-> last_month_expenses]
    /\ op' = "detect_anomalies"
    /\ pc' = "awaiting"
    /\ api_calls' = 1
    /\ UNCHANGED <<reply, result, raised, fallback_runs>>
    /\ UNCHANGED store

\* The external call of detect_anomalies ends, by a reply or by an
\* exception, and the function runs to its return.
DetectReply ==
    /\ pc = "awaiting"
    /\ op = "detect_anomalies"
    /\ \E r \in DetectReplies :
          LET done == detect_anomalies(args.income, args.monthly_limit,
                          args.target_savings, args.current_expenses,
                          args.budget_allocations, args.last_month_expenses, r)
          IN  /\ reply' = r
              /\ result' = IF done.out.raised THEN Raised ELSE done.out.value
              /\ raised' = done.out.raised
              /\ api_calls' = done.api_calls
              /\ fallback_runs' = done.fallback_runs
    /\ pc' = "done"
    /\ UNCHANGED <<op, args>>
    /\ UNCHANGED store

\* generate_ai_recommendations is called: it builds the overrun and change
\* lists and issues the external call.
RecommendCall ==
    /\ pc = "idle"
    /\ \E current_month_expenses \in RecommendExpensesValues,
          last_month_expenses \in LastMonthValues,
          budget_allocations \in RecommendAllocationsValues,
          total_expenses \in TotalExpensesValues :
          args' = [income |-> 50000 * Unit,
                   current_month_expenses |-> current_month_expenses,
                   last_month_expenses |-> last_month_expenses,
                   budget_allocations |-> budget_allocations,
                   total_expenses |-> total_expenses]
    /\ op' = "generate_ai_recommendations"
    /\ pc' = "awaiting"
    /\ api_calls' = 1
    /\ UNCHANGED <<reply, result, raised, fallback_runs>>
    /\ UNCHANGED store

\* The external call of generate_ai_recommendations ends, by a reply or by
\* an exception, and the function runs to its return.
RecommendReply ==
    /\ pc = "awaiting"
    /\ op = "generate_ai_recommendations"
    /\ \E r \in RecommendReplies :
          LET done == generate_ai_recommendations(args.income,
                          args.current_month_expenses, args.last_month_expenses,
                          args.budget_allocations, args.total_expenses, r)
          IN  /\ reply' = r
              /\ result' = IF done.out.raised THEN Raised ELSE JArray(done.out.value)
              /\ raised' = done.out.raised
              /\ api_calls' = done.api_calls
              /\ fallback_runs' = done.fallback_runs
    /\ pc' = "done"
    /\ UNCHANGED <<op, args>>
    /\ UNCHANGED store

\* The caller takes the result; nothing of the invocation is kept.
Finish ==
    /\ pc = "done"
    /\ pc' = "idle"
    /\ op' = "none"
    /\ args' = NoArgs
    /\ reply' = NoReply
    /\ result' = JArray(<<>>)
    /\ raised' = FALSE
    /\ api_calls' = 0
    /\ fallback_runs' = 0
    /\ UNCHANGED store

Next ==
    \/ BudgetCall \/ BudgetReply
    \/ DetectCall \/ DetectReply
    \/ RecommendCall \/ RecommendReply
    \/ Finish

Spec == Init /\ [][Next]_vars


---------------------------------------------------------------------------
(* The endpoints of main.py *)

\* The handlers use the database through db.table(name)...execute(): every
\* execute() is one request to the database, done or failed as a whole
\* before the next statement runs; the handler opens no transaction and
\* takes no lock, so the calls of two requests interleave freely.  A
\* failed execute() raises.

\* Rows the reads of generate_budget may find: the latest income row, the
\* user's row, the latest expense limit, the user's transactions.
IncomeData == {<<>>, <<[monthly_income |-> 0]>>, <<[monthly_income |-> 50000 * Unit]>>}
UserData == {<<>>, <<[annual_salary |-> 0]>>, <<[annual_salary |-> 600000 * Unit]>>}
LimitData == {<<>>, <<[monthly_limit |-> 0]>>, <<[monthly_limit |-> 40000 * Unit]>>}
TransactionsData ==
    { <<>>,
      << [transaction_type |-> "expense", category |-> "Food", amount |-> 600 * Unit],
         [transaction_type |-> "income", category |-> "Salary", amount |-> 50000 * Unit],
         [transaction_type |-> "expense", category |-> "Food", amount |-> 400 * Unit] >> }

\* What the external model answers to the budget prompt of a request, and
\* what it would answer to the anomaly prompt.
EndpointReplies == {CallFailed("exception"), Text(FenceJson, SampleBudgetArray, Fence)}
EndpointDetectReplies == {CallFailed("exception"), Text(FenceJson, JArray(<<SampleAnomaly>>), Fence)}

\* d[k] = v of a Python dict: a present key keeps its place.
DictSet(d, k, v) ==
    IF Has(d, k) THEN [i \in DOMAIN d |-> IF d[i][1] = k THEN <<k, v>> ELSE d[i]]
    ELSE Append(d, <<k, v>>)

\* The monthly income generate_budget works with; 0 stands for None.  The
\* salaries of the model are multiples of 12, whose twelfth is exact.
determine_income(income_data, user_data) ==
    IF income_data # <<>> /\ income_data[1].monthly_income # 0
    THEN income_data[1].monthly_income
    ELSE IF user_data # <<>> /\ user_data[1].annual_salary # 0
    THEN user_data[1].annual_salary \div 12
    ELSE 0

\* The expense limit: the stored one, or 80% of the income.
determine_expense_limit(limit_data, income) ==
    IF limit_data # <<>> /\ limit_data[1].monthly_limit # 0
    THEN limit_data[1].monthly_limit
    ELSE (income * 8) \div 10

\* The expense transactions summed by category.
RECURSIVE past_expenses_of(_)
past_expenses_of(transactions) ==
    IF transactions = <<>> THEN <<>>
    ELSE LET n    == Len(transactions)
             t    == transactions[n]
             rest == past_expenses_of(SubSeq(transactions, 1, n - 1))
         IN  IF t.transaction_type = "expense"
             THEN DictSet(rest, t.category, GetOr0(rest, t.category) + t.amount)
             ELSE rest

\* {cat["category"]: cat["allocated_amount"] for cat in budget_categories}
RECURSIVE budget_plan_of(_)
budget_plan_of(budget_categories_list) ==
    IF budget_categories_list = <<>> THEN <<>>
    ELSE LET n   == Len(budget_categories_list)
             cat == budget_categories_list[n]
         IN  DictSet(budget_plan_of(SubSeq(budget_categories_list, 1, n - 1)),
                     cat.category, cat.allocated_amount)

\* The records generate_budget inserts, one per entry of budget_plan.
budget_records(budget_plan) ==
    [i \in DOMAIN budget_plan |->
        [category |-> budget_plan[i][1], allocated_amount |-> budget_plan[i][2]]]

\* The response of a handler that ended.
Responded(slot, code, n) == [slot EXCEPT !.at = "responded", !.status = code, !.count = n]

\* generate_budget from its start to the budget it is about to store: the
\* reads, the income check (400 without an income), the engine's plan.
\* Any exception but the 400 becomes a 500.
GeneratePlan(r) ==
    /\ http[r].at = "idle"
    /\ \E reads_ok \in BOOLEAN, income_data \in IncomeData, user_data \in UserData,
          limit_data \in LimitData, transactions \in TransactionsData,
          answer \in EndpointReplies :
          LET slot           == [NoRequest EXCEPT !.endpoint = "generate_budget",
                                                  !.before = budget_plans,
                                                  !.reads_ok = reads_ok]
              income         == determine_income(income_data, user_data)
              expense_limit  == determine_expense_limit(limit_data, income)
              target_savings == income - expense_limit
              past_expenses  == Some(past_expenses_of(transactions))
              plan           == generate_budget_plan(income, target_savings,
                                                     past_expenses, 0, answer)
          IN  IF ~reads_ok THEN http' = [http EXCEPT ![r] = Responded(slot, 500, 0)]
              ELSE IF income = 0 THEN http' = [http EXCEPT ![r] = Responded(slot, 400, 0)]
              ELSE /\ TieFreeBudget(spendable(income, target_savings, 0), past_expenses)
                   /\ TieFreeReply(answer, spendable(income, target_savings, 0))
                   /\ IF plan.out.raised
                      THEN http' = [http EXCEPT ![r] = Responded(slot, 500, 0)]
                      ELSE http' = [http EXCEPT ![r] =
                                      [slot EXCEPT !.at = "planned",
                                                   !.budget_plan = budget_plan_of(plan.out.value)]]
    /\ UNCHANGED <<budget_plans, anomalies_rows>>
    /\ UNCHANGED vars

\* generate_budget deletes the user's rows of the current month.
GenerateDelete(r) ==
    /\ http[r].at = "planned"
    /\ \E executed \in BOOLEAN :
          IF executed
          THEN /\ budget_plans' = <<>>
               /\ http' = [http EXCEPT ![r].at = "deleted"]
          ELSE /\ http' = [http EXCEPT ![r] = Responded(http[r], 500, 0)]
               /\ UNCHANGED budget_plans
    /\ UNCHANGED anomalies_rows
    /\ UNCHANGED vars

\* generate_budget inserts the new rows, if there are any, and returns.
GenerateInsert(r) ==
    /\ http[r].at = "deleted"
    /\ \E executed \in BOOLEAN :
          IF http[r].budget_plan = <<>>
          THEN /\ http' = [http EXCEPT ![r] = Responded(http[r], 200, 0)]
               /\ UNCHANGED budget_plans
          ELSE IF executed
          THEN /\ budget_plans' = budget_plans \o budget_records(http[r].budget_plan)
               /\ http' = [http EXCEPT ![r] = Responded(http[r], 200, 0)]
          ELSE /\ http' = [http EXCEPT ![r] = Responded(http[r], 500, 0)]
               /\ UNCHANGED budget_plans
    /\ UNCHANGED anomalies_rows
    /\ UNCHANGED vars

\* The parameters of detect_anomalies; none has a default.
detect_anomalies_parameters == {"income", "monthly_limit", "target_savings", "current_expenses", "budget_allocations", "last_month_expenses"}

\* The keyword arguments detect_anomalies_endpoint calls it with.
endpoint_keywords(transactions, expense_limit) == [transactions |-> transactions, expense_limit |-> expense_limit]

\* A Python call by keywords: a keyword that is no parameter, or a
\* parameter left without a value, raises TypeError before the body runs.
call_detect_anomalies(kwargs, answer) ==
    IF DOMAIN kwargs # detect_anomalies_parameters THEN Raise
    ELSE detect_anomalies(kwargs.income, kwargs.monthly_limit, kwargs.target_savings,
                          kwargs.current_expenses, kwargs.budget_allocations,
                          kwargs.last_month_expenses, answer).out

\* The rows detect_anomalies_endpoint inserts for the anomalies found.
anomaly_records(found) == [i \in DOMAIN found |-> found[i]]

\* detect_anomalies_endpoint: the reads, the call of the detector, the
\* replacement of the stored anomalies; any exception becomes a 500.
DetectAnomaliesEndpoint(r) ==
    /\ http[r].at = "idle"
    /\ \E reads_ok \in BOOLEAN, transactions \in TransactionsData,
          limit_data \in LimitData, answer \in EndpointDetectReplies :
          LET slot          == [NoRequest EXCEPT !.endpoint = "detect_anomalies_endpoint",
                                                 !.reads_ok = reads_ok]
              expense_limit == IF limit_data # <<>> THEN limit_data[1].monthly_limit ELSE 0
              anomalies     == call_detect_anomalies(
                                   endpoint_keywords(transactions, expense_limit), answer)
          IN  IF ~reads_ok \/ anomalies.raised
              THEN /\ http' = [http EXCEPT ![r] = Responded(slot, 500, 0)]
                   /\ UNCHANGED anomalies_rows
              ELSE /\ anomalies_rows' = anomaly_records(anomalies.value.items)
                   /\ http' = [http EXCEPT ![r] =
                                 Responded(slot, 200, Len(anomalies.value.items))]
    /\ UNCHANGED budget_plans
    /\ UNCHANGED vars

ServerNext ==
    \E r \in Requests :
        \/ GeneratePlan(r) \/ GenerateDelete(r) \/ GenerateInsert(r)
        \/ DetectAnomaliesEndpoint(r)

\* A budget stored by an earlier request of the user.
StoredBudget ==
    budget_records(budget_plan_of(
        generate_budget_plan(50000 * Unit, 10000 * Unit, Some(<<>>), 0,
                             CallFailed("exception")).out.value))

\* The server with no request in progress: the month's budget is not yet
\* generated, or an earlier request stored one.
ServerInit ==
    /\ pc = "idle"
    /\ op = "none"
    /\ args = NoArgs
    /\ reply = NoReply
    /\ result = JArray(<<>>)
    /\ raised = FALSE
    /\ api_calls = 0
    /\ fallback_runs = 0
    /\ budget_plans \in {<<>>, StoredBudget}
    /\ anomalies_rows = <<>>
    /\ http = [r \in Requests |-> NoRequest]

ServerSpec == ServerInit /\ [][ServerNext]_<<vars, store>>

---------------------------------------------------------------------------
(* Properties *)

BudgetOp == op = "generate_budget_plan"
DetectOp == op = "detect_anomalies"

\* spendable_amount of the generate_budget_plan invocation in progress.
Spendable == spendable(args.income, args.target_savings, args.loan_commitments)

\* What _rule_based_budget returns when called directly on the arguments of
\* the invocation in progress.
Allocated ==
    _rule_based_budget(args.income, args.target_savings, args.loan_commitments,
                       args.past_expenses)

\* What rule_based_anomaly_detection returns on the arguments of the
\* invocation in progress.
Detected ==
    rule_based_anomaly_detection(args.income, args.monthly_limit,
        args.target_savings, args.current_expenses, args.budget_allocations,
        args.last_month_expenses)

\* The external call was made and failed: it raised, timed out, or its
\* reply is not JSON.
ExternalCallFailed ==
    \/ reply.kind \in {"exception", "timeout"}
    \/ reply.kind = "text" /\ json_loads(StripFences(reply)).raised

\* C1: when income - target_savings - loan_commitments <= 0, generate_budget_plan
\* returns the empty list, and so does _rule_based_budget called directly,
\* whatever past_expenses is.
C1_NothingSpendableGivesEmpty ==
    (BudgetOp /\ Spendable <= 0) =>
        /\ Allocated = Return(<<>>)
        /\ pc = "done" /\ ~raised /\ result = JArray(<<>>)

C1_Witness ==
    /\ BudgetOp /\ pc = "done" /\ Spendable < 0
    /\ Truthy(args.past_expenses)
    /\ result = JArray(<<>>)

\* C2: when the external call of generate_budget_plan or detect_anomalies
\* fails (exception, timeout, non-JSON reply), nothing is raised to the
\* caller and the value returned is exactly that of the rule-based function
\* on the same arguments.
C2_TransparentFallback ==
    (pc = "done" /\ ExternalCallFailed) =>
        /\ ~raised
        /\ BudgetOp => result = JArray(Allocated.value)
        /\ DetectOp => result = JArray(Detected.value)

C2_Witness ==
    /\ pc = "done" /\ BudgetOp /\ reply.kind = "timeout"
    /\ args.loan_commitments > 0
    /\ Len(result.items) = Len(Categories)
    /\ ~raised

\* C3 (as claimed): whichever path produced it, the list generate_budget_plan
\* returns for spendable > 0 sums to at most spendable + 0.01.
C3_ReturnedSumWithinSpendable ==
    (pc = "done" /\ BudgetOp /\ ~raised /\ Spendable > 0) =>
        SumAmounts(result.items) <= Spendable + Cent

\* C4 (as claimed): for every positive spendable and every past_expenses,
\* the output of _rule_based_budget sums to at most spendable + 0.01.
C4_AllocatedSumWithinSpendable ==
    (BudgetOp /\ Spendable > 0) =>
        SumAmounts(Allocated.value) <= Spendable + Cent

\* The nine categories in priority order, as the specification lists them.
PriorityOrder ==
    <<"Rent", "Food", "Bills", "Transport", "Healthcare", "Education",
      "Shopping", "Entertainment", "Other">>

\* C5: for every positive spendable _rule_based_budget returns exactly one
\* entry per fixed category, in priority order, and none for a category of
\* past_expenses outside that set.
C5_OneEntryPerCategoryInOrder ==
    (BudgetOp /\ Spendable > 0) =>
        /\ ~Allocated.raised
        /\ [i \in DOMAIN Allocated.value |-> Allocated.value[i].category]
               = PriorityOrder

C5_Witness ==
    /\ pc = "done" /\ BudgetOp /\ fallback_runs = 1
    /\ Has(args.past_expenses.items, "Travel")
    /\ [i \in DOMAIN result.items |-> result.items[i].category] = PriorityOrder

\* C6 (as claimed): for every spendable > 0, however small, every
\* allocated_amount returned by _rule_based_budget is strictly positive.
C6_EveryAllocationPositive ==
    (BudgetOp /\ Spendable > 0) =>
        \A i \in DOMAIN Allocated.value : Allocated.value[i].allocated_amount > 0

\* Twice the midpoint of each category's [min%, max%] range, in thousandths,
\* in priority order: 30%, 20%, 12.5%, 10%, 7.5%, 10%, 7.5%, 5.5%, 3.5%.
TwiceMidpoint == <<600, 400, 250, 200, 150, 200, 150, 110, 70>>

\* round(spendable x midpoint, 2) of the i-th category.
MidpointAmount(i) == Round2(Spendable, TwiceMidpoint[i], 2000)

RECURSIVE MidpointTotal(_)
MidpointTotal(n) == IF n = 0 THEN 0 ELSE MidpointAmount(n) + MidpointTotal(n - 1)

NoPastExpenses == ~Truthy(args.past_expenses)

\* C7 (as claimed): with no past expenses the returned amount of a category
\* is round(spendable x midpoint, 2); income 50000, savings 10000, loans 0
\* returns Rent 12000.00.
C7_MidpointAmountsReturned ==
    (BudgetOp /\ Spendable > 0 /\ NoPastExpenses) =>
        /\ \A i \in DOMAIN Allocated.value :
              Allocated.value[i].allocated_amount = MidpointAmount(i)
        /\ Spendable = 40000 * Unit =>
              Allocated.value[1].allocated_amount = 12000 * Unit

\* C7 (amended): with no past expenses the amount of a category before
\* normalisation is round(spendable x midpoint, 2); the midpoints add up to
\* 106.5%, and whenever these amounts total more than spendable the amount
\* returned is round(amount x spendable / total, 2), otherwise the amount
\* itself.  Income 50000, savings 10000, loans 0 returns Rent 11267.61.
C7_MidpointAmountsScaled ==
    (BudgetOp /\ Spendable > 0 /\ NoPastExpenses) =>
        LET total == MidpointTotal(Len(TwiceMidpoint)) IN
        /\ \A i \in DOMAIN Allocated.value :
              Allocated.value[i].allocated_amount =
                  IF total > Spendable
                  THEN Round2(MidpointAmount(i), Spendable, total)
                  ELSE MidpointAmount(i)
        /\ Spendable = 40000 * Unit =>
              Allocated.value[1] =
                  [category |-> "Rent", allocated_amount |-> 11267 * Unit + 610]

C7_Witness ==
    /\ pc = "done" /\ BudgetOp /\ fallback_runs = 1
    /\ args.income = 50000 * Unit /\ args.target_savings = 10000 * Unit
    /\ args.loan_commitments = 0 /\ args.past_expenses = None
    /\ result.items[1] = [category |-> "Rent", allocated_amount |-> 11267 * Unit + 610]

\* The scale-down correction run once more on what _rule_based_budget returned.
Rescaled == ScaleDown(Allocated.value, Spendable)

\* C8 (as claimed): re-running the scale-down correction on a set the
\* correction itself produced leaves the sum unchanged within 0.01.
C8_RescalingKeepsSum ==
    (BudgetOp /\ Spendable > 0) =>
        Abs(SumAmounts(Rescaled) - SumAmounts(Allocated.value)) <= Cent

\* The positions of the detector's output that name category c.
AnomaliesOf(c) == {i \in DOMAIN Detected.value : Detected.value[i].category = c}

\* C9: in the detector's output every category of current_expenses appears
\* in at most one anomaly; current_expenses = {Food: 6000} with
\* budget_allocations = {Food: 5000} yields exactly one Food anomaly, with
\* impact_amount 1000.00.
C9_OneAnomalyPerCategory ==
    DetectOp =>
        /\ ~Detected.raised
        /\ \A c \in Keys(args.current_expenses) : Cardinality(AnomaliesOf(c)) <= 1
        /\ ( /\ args.current_expenses = << <<"Food", 6000 * Unit>> >>
             /\ args.budget_allocations = << <<"Food", 5000 * Unit>> >> ) =>
              /\ Cardinality(AnomaliesOf("Food")) = 1
              /\ \A i \in AnomaliesOf("Food") :
                    Detected.value[i].impact_amount = [num |-> 1000 * Unit, den |-> 1]

C9_Witness ==
    /\ pc = "done" /\ DetectOp /\ fallback_runs = 1
    /\ args.current_expenses = << <<"Food", 6000 * Unit>> >>
    /\ args.budget_allocations = << <<"Food", 5000 * Unit>> >>
    /\ Has(args.last_month_expenses, "Food")
    /\ Get(args.last_month_expenses, "Food") = 1000 * Unit
    /\ Cardinality({i \in DOMAIN result.items : result.items[i].category = "Food"}) = 1

\* The positions of the detector's output that rule 2 produced for category c.
SpikesOf(c) ==
    {i \in AnomaliesOf(c) :
        Detected.value[i].issue = "spending increased compared to last month"}

\* Category c is over its allocated budget: rule 1 flags it.
OverBudget(c) ==
    /\ Has(args.budget_allocations, c)
    /\ Get(args.current_expenses, c) > Get(args.budget_allocations, c)

\* C10: rule 2 flags a category exactly when it is in current_expenses and
\* last_month_expenses, rule 1 did not flag it, last month > 0 and the
\* increase is strictly more than 30% of last month; the impact is
\* current - last month.  1000 -> 1300 does not trigger, 1000 -> 1301 does.
C10_SpikeStrictlyAboveThirtyPercent ==
    DetectOp =>
        \A c \in Keys(args.current_expenses) :
            LET cur == Get(args.current_expenses, c)
                lst == Get(args.last_month_expenses, c)
                due == /\ Has(args.last_month_expenses, c)
                       /\ ~OverBudget(c)
                       /\ lst > 0
                       /\ 10 * (cur - lst) > 3 * lst
            IN  /\ (SpikesOf(c) # {}) <=> due
                /\ \A i \in SpikesOf(c) :
                      Detected.value[i].impact_amount = [num |-> cur - lst, den |-> 1]
                /\ (due /\ lst = 1000 * Unit) => cur >= 1301 * Unit

C10_Witness ==
    /\ pc = "done" /\ DetectOp /\ fallback_runs = 1
    /\ Has(args.current_expenses, "Food") /\ Has(args.current_expenses, "Other")
    /\ Get(args.current_expenses, "Food") = 1301 * Unit
    /\ Get(args.current_expenses, "Other") = 1300 * Unit
    /\ Has(args.last_month_expenses, "Food") /\ Has(args.last_month_expenses, "Other")
    /\ Get(args.last_month_expenses, "Food") = 1000 * Unit
    /\ Get(args.last_month_expenses, "Other") = 1000 * Unit
    /\ args.budget_allocations = <<>>
    /\ \E i \in DOMAIN result.items :
          /\ result.items[i].category = "Food"
          /\ result.items[i].issue = "spending increased compared to last month"
          /\ result.items[i].impact_amount = [num |-> 301 * Unit, den |-> 1]
    /\ \A i \in DOMAIN result.items :
          result.items[i].issue # "spending increased compared to last month"
              \/ result.items[i].category # "Other"

\* sum(current_expenses.values()) of the invocation in progress.
TotalCurrent == SumValues(args.current_expenses)

\* The positions of the detector's output that rule 4 produced.
ExceededLimit ==
    {i \in AnomaliesOf("Overall Budget") :
        Detected.value[i].issue = "total expenses exceeded monthly limit"}

\* The positions of the detector's output that rule 5 produced.
NearLimit ==
    {i \in AnomaliesOf("Overall Budget") :
        Detected.value[i].issue = "used percent of monthly budget"}

\* C11: the detector emits the rule-4 'Overall Budget' anomaly, with impact
\* total - monthly_limit, exactly when total > monthly_limit, whatever rules
\* 1-3 flagged, and never emits both the rule-4 and the rule-5 anomaly.
C11_ExceededLimitExactlyWhenOver ==
    DetectOp =>
        /\ (ExceededLimit # {}) <=> (TotalCurrent > args.monthly_limit)
        /\ \A i \in ExceededLimit :
              Detected.value[i].impact_amount =
                  [num |-> TotalCurrent - args.monthly_limit, den |-> 1]
        /\ Cardinality(AnomaliesOf("Overall Budget")) <= 1
        /\ ExceededLimit = {} \/ NearLimit = {}

C11_Witness ==
    /\ pc = "done" /\ DetectOp /\ fallback_runs = 1
    /\ args.monthly_limit = 10000 * Unit
    /\ TotalCurrent = 12000 * Unit
    /\ Cardinality(AnomaliesOf("Food")) = 1 /\ Cardinality(AnomaliesOf("Rent")) = 0
    /\ result.items[Len(result.items)].category = "Overall Budget"
    /\ result.items[Len(result.items)].impact_amount = [num |-> 2000 * Unit, den |-> 1]

\* C12: when 0.9 x monthly_limit < total <= monthly_limit the detector emits
\* exactly one 'Overall Budget' anomaly, whose impact_amount is the total
\* spent; when total <= 0.9 x monthly_limit it emits none.  total = 9500
\* with monthly_limit = 10000 gives one aggregate anomaly of impact 9500.00.
C12_NearLimitReportsTotal ==
    DetectOp =>
        /\ ( /\ 10 * TotalCurrent > 9 * args.monthly_limit
             /\ TotalCurrent <= args.monthly_limit ) =>
              /\ Cardinality(AnomaliesOf("Overall Budget")) = 1
              /\ \A i \in AnomaliesOf("Overall Budget") :
                    Detected.value[i].impact_amount = [num |-> TotalCurrent, den |-> 1]
        /\ 10 * TotalCurrent <= 9 * args.monthly_limit =>
              AnomaliesOf("Overall Budget") = {}
        /\ (TotalCurrent = 9500 * Unit /\ args.monthly_limit = 10000 * Unit) =>
              \E i \in DOMAIN Detected.value :
                  /\ AnomaliesOf("Overall Budget") = {i}
                  /\ Detected.value[i].impact_amount = [num |-> 9500 * Unit, den |-> 1]

C12_Witness ==
    /\ pc = "done" /\ DetectOp /\ fallback_runs = 1
    /\ TotalCurrent = 9500 * Unit /\ args.monthly_limit = 10000 * Unit
    /\ Len(result.items) = 1
    /\ result.items[1].category = "Overall Budget"
    /\ result.items[1].impact_amount = [num |-> 9500 * Unit, den |-> 1]

RecommendOp == op = "generate_ai_recommendations"

\* C13 (as claimed): generate_ai_recommendations never returns an empty
\* sequence when total_expenses > 0, whether the external reply is accepted
\* or the rule-based fallback runs.
C13_RecommendationsNeverEmpty ==
    (pc = "done" /\ RecommendOp /\ args.total_expenses > 0) =>
        ~raised /\ Len(result.items) >= 1

\* The external call returned one JSON document.
ReplyParsed == reply.kind = "text" /\ ~json_loads(StripFences(reply)).raised

\* The JSON document of the reply.
ReplyValue == json_loads(StripFences(reply)).value

\* The reply is not an array, or one of its elements lacks a field of fields.
Malformed(fields) ==
    \/ ReplyValue.type # "array"
    \/ \E i \in DOMAIN ReplyValue.items : ~(fields \subseteq DOMAIN ReplyValue.items[i])

\* C14 (as claimed): when the parsed reply of detect_anomalies is not an
\* array, or an element lacks category, issue, impact_amount or
\* recommendation, the reply is discarded and the result is that of
\* rule_based_anomaly_detection on the same arguments.
C14_MalformedAnomaliesRejected ==
    ( /\ pc = "done" /\ DetectOp /\ ReplyParsed
      /\ Malformed({"category", "issue", "impact_amount", "recommendation"}) ) =>
        ~raised /\ result = JArray(Detected.value)

\* C15: when the parsed reply of generate_budget_plan is not an array, or an
\* element lacks category or allocated_amount, nothing of the reply is
\* returned: the result is that of _rule_based_budget on the same arguments.
C15_MalformedBudgetRejected ==
    ( /\ pc = "done" /\ BudgetOp /\ ReplyParsed
      /\ Malformed({"category", "allocated_amount"}) ) =>
        /\ ~raised
        /\ fallback_runs = 1
        /\ result = JArray(Allocated.value)

C15_Witness ==
    /\ pc = "done" /\ BudgetOp /\ ReplyParsed
    /\ ReplyValue.type = "array" /\ Len(ReplyValue.items) = 2
    /\ DOMAIN ReplyValue.items[1] = {"category", "allocated_amount"}
    /\ DOMAIN ReplyValue.items[2] = {"allocated_amount"}
    /\ fallback_runs = 1
    /\ result = JArray(Allocated.value) /\ Len(result.items) = Len(Categories)

\* A money amount with at most 2 decimal places.
TwoDecimals(amount) == amount % Cent = 0

\* C16 (as claimed): every allocated_amount returned by generate_budget_plan
\* and every impact_amount returned by the anomaly detector has at most 2
\* decimal places.
C16_MoneyRoundedToCents ==
    /\ (pc = "done" /\ BudgetOp /\ ~raised) =>
          \A i \in DOMAIN result.items : TwoDecimals(result.items[i].allocated_amount)
    /\ DetectOp =>
          \A i \in DOMAIN Detected.value :
              /\ Detected.value[i].impact_amount.den = 1
              /\ TwoDecimals(Detected.value[i].impact_amount.num)

\* The try block of the invocation in progress raised: the call failed, the
\* reply is not JSON, or the reply failed the function's own use of it.
TryBlockFailed ==
    \/ ~ReplyParsed
    \/ BudgetOp /\ Malformed({"category", "allocated_amount"})
    \/ RecommendOp /\ Malformed({"category", "message"})
    \/ DetectOp /\ ReplyValue.type \in {"number", "null"}

\* C17: in one invocation the external call is issued at most once, and the
\* deterministic fallback runs at most once and only after that call, or the
\* parsing or validation of its reply, has failed.
C17_NoRetries ==
    /\ api_calls <= 1
    /\ fallback_runs <= 1
    /\ fallback_runs = 1 => (pc = "done" /\ api_calls = 1 /\ TryBlockFailed)
    /\ (pc = "done" /\ api_calls = 1 /\ TryBlockFailed) => fallback_runs = 1

C17_Witness ==
    /\ pc = "done" /\ RecommendOp /\ reply.kind = "timeout"
    /\ api_calls = 1 /\ fallback_runs = 1
    /\ Len(result.items) >= 1

\* C18: _rule_based_budget and rule_based_anomaly_detection always return a
\* result and never divide by zero, also for monthly_limit = 0, last-month
\* amounts of 0, empty expense maps and a total of 0.
C18_DeterministicPathReturns ==
    /\ BudgetOp => ~Allocated.raised
    /\ DetectOp => ~Detected.raised
    /\ (pc = "done" /\ fallback_runs = 1) => ~raised

C18_Witness ==
    /\ pc = "done" /\ DetectOp /\ fallback_runs = 1 /\ ~raised
    /\ args.monthly_limit = 0 /\ TotalCurrent = 0
    /\ Has(args.current_expenses, "Rent") /\ Has(args.last_month_expenses, "Rent")
    /\ Get(args.last_month_expenses, "Rent") = 0
    /\ result = JArray(<<>>)

\* The least amount, in thousandths, that is at least spendable x share, and
\* the greatest that is at most spendable x share; share in thousandths.
ShareCeil(share) ==
    LET qr == MulDivMod(Spendable, share, 1000) IN qr[1] + (IF qr[2] > 0 THEN 1 ELSE 0)
ShareFloor(share) == MulDivMod(Spendable, share, 1000)[1]

\* C19 (as claimed): every amount returned by _rule_based_budget lies between
\* spendable x min% and spendable x max% of its category, within 0.01, also
\* after the scale-down step.
C19_AllocationWithinShareRange ==
    (BudgetOp /\ Spendable > 0) =>
        \A i \in DOMAIN Allocated.value :
            LET range  == priority_allocation[Allocated.value[i].category]
                amount == Allocated.value[i].allocated_amount
            IN  /\ amount + Cent >= ShareCeil(range.min)
                /\ amount - Cent <= ShareFloor(range.max)

\* The positions of the detector's output that rule 1 produced for category c.
OverspendsOf(c) ==
    {i \in AnomaliesOf(c) : Detected.value[i].issue = "spending exceeded budget"}

\* C20: rule 1 flags exactly the categories that are in current_expenses and
\* in budget_allocations with current > allocated, each once and with impact
\* current - allocated; a category with current = allocated, or without an
\* allocation, is not flagged by rule 1.
C20_OverspendStrictlyAboveAllocation ==
    DetectOp =>
        /\ \A c \in Keys(args.current_expenses) :
              LET current == Get(args.current_expenses, c)
                  due == /\ Has(args.budget_allocations, c)
                         /\ current > Get(args.budget_allocations, c)
              IN  /\ Cardinality(OverspendsOf(c)) = IF due THEN 1 ELSE 0
                  /\ \A i \in OverspendsOf(c) :
                        Detected.value[i].impact_amount =
                            [num |-> current - Get(args.budget_allocations, c), den |-> 1]
        /\ \A i \in DOMAIN Detected.value :
              Detected.value[i].issue = "spending exceeded budget" =>
                  Detected.value[i].category \in Keys(args.current_expenses)

C20_Witness ==
    /\ pc = "done" /\ DetectOp /\ fallback_runs = 1
    /\ args.current_expenses =
           << <<"Food", 6000 * Unit>>, <<"Rent", 1301 * Unit>>, <<"Other", 1300 * Unit>> >>
    /\ args.budget_allocations = << <<"Food", 6000 * Unit>>, <<"Rent", 1300 * Unit>> >>
    /\ result.items[1].category = "Rent"
    /\ result.items[1].issue = "spending exceeded budget"
    /\ result.items[1].impact_amount = [num |-> 1 * Unit, den |-> 1]
    /\ \A i \in DOMAIN result.items :
          result.items[i].issue = "spending exceeded budget" => i = 1

\* The positions of the detector's output that rule 3 produced for category c.
OutliersOf(c) ==
    {i \in AnomaliesOf(c) : Detected.value[i].issue = "unusually large expense"}

\* len(current_expenses) of the invocation in progress.
NumCategories == Len(args.current_expenses)

\* C21: rule 3 flags a category exactly when rules 1-2 did not flag it, the
\* per-category average is positive and the amount is more than twice that
\* average, with impact amount - average; the average is the sum of all
\* current expenses over the number of all categories, flagged ones included.
C21_OutlierAboveTwiceAverage ==
    DetectOp =>
        \A c \in Keys(args.current_expenses) :
            LET amount == Get(args.current_expenses, c)
                due == /\ OverspendsOf(c) = {} /\ SpikesOf(c) = {}
                       /\ TotalCurrent > 0
                       /\ amount * NumCategories > 2 * TotalCurrent
            IN  /\ Cardinality(OutliersOf(c)) = IF due THEN 1 ELSE 0
                /\ \A i \in OutliersOf(c) :
                      LET impact == Detected.value[i].impact_amount IN
                      /\ impact.den > 0
                      /\ impact.num * NumCategories =
                             (amount * NumCategories - TotalCurrent) * impact.den

C21_Witness ==
    /\ pc = "done" /\ DetectOp /\ fallback_runs = 1
    /\ args.current_expenses =
           << <<"Food", 9500 * Unit>>, <<"Rent", 0>>, <<"Other", 1300 * Unit>> >>
    /\ args.budget_allocations = << <<"Other", 1234 * Unit + 567>> >>
    /\ args.last_month_expenses = <<>>
    /\ OverspendsOf("Other") # {}
    /\ \E i \in DOMAIN result.items :
          /\ result.items[i].category = "Food"
          /\ result.items[i].issue = "unusually large expense"
          /\ result.items[i].impact_amount = [num |-> 5900 * Unit, den |-> 1]

\* The rounded per-category amounts of the invocation in progress, before
\* the scale-down step.
Unscaled == budget_categories(Spendable, args.past_expenses)

\* The minimum share of each category, in thousandths, in priority order.
MinShare == <<250, 150, 100, 80, 50, 50, 50, 30, 20>>

\* Every fixed category has a past expense of 0: each share clamps to its minimum.
AllAtMinimum ==
    /\ Truthy(args.past_expenses)
    /\ \A i \in DOMAIN PriorityOrder :
          /\ Has(args.past_expenses.items, PriorityOrder[i])
          /\ Get(args.past_expenses.items, PriorityOrder[i]) = 0

\* C22: _rule_based_budget never scales up.  When the rounded per-category
\* amounts total at most spendable they are returned unchanged; when every
\* past share clamps to its minimum each amount is round(spendable x min%, 2)
\* and the remainder of spendable stays unassigned.
C22_NeverScaledUp ==
    (BudgetOp /\ Spendable > 0) =>
        /\ SumAmounts(Unscaled) <= Spendable => Allocated.value = Unscaled
        /\ AllAtMinimum =>
              /\ \A i \in DOMAIN Allocated.value :
                    Allocated.value[i].allocated_amount = Round2(Spendable, MinShare[i], 1000)
              /\ Spendable >= 1 * Unit => SumAmounts(Allocated.value) < Spendable

C22_Witness ==
    /\ pc = "done" /\ BudgetOp /\ fallback_runs = 1
    /\ AllAtMinimum /\ Spendable = 100 * Unit
    /\ result.items[1] = [category |-> "Rent", allocated_amount |-> 25 * Unit]
    /\ SumAmounts(result.items) = 78 * Unit

\* The external reply of generate_budget_plan passed the structure check.
BudgetReplyAccepted ==
    /\ pc = "done" /\ BudgetOp /\ ReplyParsed
    /\ ~Malformed({"category", "allocated_amount"})

\* The sum of the amounts of the reply.
ReplyTotal == SumAmounts(ReplyValue.items)

RecommendFellBack == pc = "done" /\ RecommendOp /\ fallback_runs = 1

\* The positions of the returned recommendations whose category ends in words.
RecsNamed(words) == {i \in DOMAIN result.items : result.items[i].category.words = words}

\* C24: the recommender's fallback output holds exactly one 'Savings
\* Opportunity' record if and only if total_expenses > 0, and holds the
\* 'Financial Health' message if and only if it holds no overrun record, no
\* spike record and total_expenses <= 0; that message is then the only element.
C24_SavingsAndHealthRecords ==
    RecommendFellBack =>
        LET quiet == /\ RecsNamed("Budget Alert") = {} /\ RecsNamed("Spike") = {}
                     /\ args.total_expenses <= 0
        IN  /\ Cardinality(RecsNamed("Savings Opportunity")) =
                   IF args.total_expenses > 0 THEN 1 ELSE 0
            /\ (RecsNamed("Financial Health") # {}) <=> quiet
            /\ quiet => /\ Len(result.items) = 1
                        /\ result.items[1].type = "success"

C24_Witness ==
    /\ RecommendFellBack /\ args.total_expenses = 0
    /\ Len(args.current_month_expenses) = 2
    /\ RecsNamed("Financial Health") = {1} /\ Len(result.items) = 1

\* The issue templates of rules 1, 2, 3 and of the aggregate rules 4 and 5.
RuleOf(issue) ==
    CASE issue = "spending exceeded budget" -> 1
      [] issue = "spending increased compared to last month" -> 2
      [] issue = "unusually large expense" -> 3
      [] issue \in {"total expenses exceeded monthly limit",
                    "used percent of monthly budget"} -> 4

\* C25: the detector's output lists all rule-1 anomalies first, then all
\* rule-2 anomalies, then all rule-3 anomalies, and the 'Overall Budget'
\* anomaly of rule 4 or 5, when present, is the last element.
C25_AnomaliesOrderedByRule ==
    DetectOp =>
        /\ \A i, j \in DOMAIN Detected.value :
              i < j => RuleOf(Detected.value[i].issue) <= RuleOf(Detected.value[j].issue)
        /\ AnomaliesOf("Overall Budget") \subseteq {Len(Detected.value)}

C25_Witness ==
    /\ pc = "done" /\ DetectOp /\ fallback_runs = 1
    /\ args.current_expenses =
           << <<"Food", 1301 * Unit>>, <<"Rent", 9500 * Unit>>, <<"Other", 1300 * Unit>> >>
    /\ [i \in DOMAIN result.items |-> result.items[i].category]
           = <<"Other", "Food", "Rent", "Overall Budget">>
    /\ [i \in DOMAIN result.items |-> RuleOf(result.items[i].issue)] = <<1, 2, 3, 4>>

\* C26: with non-negative amounts rule 3 flags nothing when current_expenses
\* has fewer than three categories.
C26_NoOutlierBelowThreeCategories ==
    (DetectOp /\ NumCategories < 3) =>
        /\ \A kv \in {args.current_expenses[i] : i \in DOMAIN args.current_expenses} :
              kv[2] >= 0
        /\ \A i \in DOMAIN Detected.value :
              Detected.value[i].issue # "unusually large expense"

C26_Witness ==
    /\ pc = "done" /\ DetectOp /\ fallback_runs = 1
    /\ args.current_expenses = << <<"Food", 9500 * Unit>>, <<"Rent", 0>> >>
    /\ args.budget_allocations = <<>> /\ args.last_month_expenses = <<>>
    /\ args.monthly_limit = 20000 * Unit
    /\ result = JArray(<<>>)

\* The categories that received a '<Category> Budget Alert' and a
\* '<Category> Spike' recommendation.
AlertCategories == {result.items[i].category.about : i \in RecsNamed("Budget Alert")}
SpikeCategories == {result.items[i].category.about : i \in RecsNamed("Spike")}

\* The categories detector rule 1 flags for the recommender's arguments, and
\* those whose increase exceeds the threshold of detector rule 2.
Rule1Categories ==
    CategoriesOf(rule1(args.current_month_expenses, args.budget_allocations))
Rule2ThresholdCategories ==
    {c \in Keys(args.current_month_expenses) :
        /\ Has(args.last_month_expenses, c)
        /\ spiked(Get(args.current_month_expenses, c), Get(args.last_month_expenses, c))}

\* C27 (as claimed): the categories that receive a Budget Alert are those
\* detector rule 1 flags, and the categories that receive a Spike are those
\* whose month-over-month increase exceeds the detector's rule-2 threshold.
C27_RecommenderAgreesWithDetector ==
    RecommendFellBack =>
        /\ AlertCategories = Rule1Categories
        /\ SpikeCategories = Rule2ThresholdCategories

\* C27 (amended): a category receives a Budget Alert exactly when its
\* allocation is positive and it spent more than that: always a category
\* detector rule 1 flags, but not one whose allocation is 0.  A category
\* receives a Spike exactly when last month > 0 and the increase is more than
\* 20% of it: every category above the detector's 30% threshold, and also
\* those between 20% and 30%.
C27_RecommenderOwnThresholds ==
    RecommendFellBack =>
        /\ AlertCategories =
              {c \in Keys(args.current_month_expenses) :
                  /\ Has(args.budget_allocations, c)
                  /\ Get(args.budget_allocations, c) > 0
                  /\ Get(args.current_month_expenses, c) > Get(args.budget_allocations, c)}
        /\ AlertCategories \subseteq Rule1Categories
        /\ SpikeCategories =
              {c \in Keys(args.current_month_expenses) :
                  /\ Has(args.last_month_expenses, c)
                  /\ Get(args.last_month_expenses, c) > 0
                  /\ 5 * (Get(args.current_month_expenses, c)
                            - Get(args.last_month_expenses, c))
                         > Get(args.last_month_expenses, c)}
        /\ Rule2ThresholdCategories \subseteq SpikeCategories

C27_Witness ==
    /\ RecommendFellBack
    /\ args.current_month_expenses = << <<"Food", 1300 * Unit>> >>
    /\ args.budget_allocations = << <<"Food", 0>> >>
    /\ Has(args.last_month_expenses, "Food")
    /\ Get(args.last_month_expenses, "Food") = 1000 * Unit
    /\ AlertCategories = {} /\ Rule1Categories = {"Food"}
    /\ SpikeCategories = {"Food"} /\ Rule2ThresholdCategories = {}

\* ---- The endpoints ----

GenerateRequest(r) == http[r].endpoint = "generate_budget"
DetectRequest(r) == http[r].endpoint = "detect_anomalies_endpoint"
Ended(r) == http[r].at = "responded"

\* No handler is between two of its database calls.
Quiescent == \A r \in Requests : http[r].at \in {"idle", "responded"}

\* C28: POST /api/anomalies/detect calls the detector with the six inputs
\* of its contract and, when the database reads succeed, replaces the
\* user's stored anomalies with the detector's result and reports its
\* count: the request ends with status 200 and the count of the rows now
\* stored.
C28_EndpointStoresDetectorResult ==
    \A r \in Requests :
        (DetectRequest(r) /\ Ended(r) /\ http[r].reads_ok) =>
            /\ DOMAIN endpoint_keywords(<<>>, 0) = detect_anomalies_parameters
            /\ http[r].status = 200
            /\ http[r].count = Len(anomalies_rows)

\* C29: after any interleaving of concurrent generate_budget requests of
\* the user in one month, budget_plans holds at most one row per category
\* for that user and month.
C29_OneRowPerCategory ==
    Quiescent =>
        \A i, j \in DOMAIN budget_plans :
            budget_plans[i].category = budget_plans[j].category => i = j

\* C30: a generate_budget request that ends in an error (status 4xx or
\* 5xx) leaves the user's stored budget rows of the month as they were
\* before the request.  Stated of a request that ran alone, so that no
\* other request accounts for a difference.
C30_FailedRequestKeepsBudget ==
    \A r \in Requests :
        (/\ GenerateRequest(r) /\ Ended(r) /\ http[r].status >= 400
         /\ \A q \in Requests \ {r} : http[q].at = "idle") =>
            budget_plans = http[r].before

====
